---- MODULE Spec2Model ----
(***************************************************************************)
(* A model of the SQL question-answering pipeline of working_mcp:          *)
(*   client.py  SQLAgentClient (connect / ask / cleanup) and main          *)
(*   server.py  the four tool handlers and their collaborators             *)
(*                                                                         *)
(* Texts (Python str) are sequences of string tokens.  A token is a brace, *)
(* a piece of commentary, one "key": value member of a flat JSON object,   *)
(* or a chunk of a message built by an f-string.  Mappings (Python dict)   *)
(* are functions from Keys to a value or Absent.                           *)
(***************************************************************************)
EXTENDS Integers, Sequences, FiniteSets, TLC

\* ------------------------------------------------------------------ bounds
MaxLen == 4
MaxReply == 3
MaxRows == 1

\* ------------------------------------------------------------------ tokens
LBrace == "{"
RBrace == "}"
Commentary == "note"

Absent == "<absent>"
None == "<None>"
EmptyStr == ""

Keys == {"error", "sql_query", "table"}

\* The members a JSON object of the model can hold, as single tokens.
PairTokens ==
    {"error:X", "error:", "sql_query:SELECT", "sql_query:DROP", "sql_query:",
     "table:vehicles", "error:ner", "error:llm"}

KeyOf(tok) ==
    CASE tok \in {"error:X", "error:", "error:ner", "error:llm"} -> "error"
      [] tok \in {"sql_query:SELECT", "sql_query:DROP", "sql_query:"} -> "sql_query"
      [] tok = "table:vehicles" -> "table"
      [] OTHER -> Absent

ValOf(tok) ==
    CASE tok = "error:X" -> "X"
      [] tok = "error:" -> EmptyStr
      [] tok = "error:ner" -> "Error in ner_generator_dynamic: e"
      [] tok = "error:llm" -> "LLM Error in create_sql: e"
      [] tok = "sql_query:SELECT" -> "SELECT"
      [] tok = "sql_query:DROP" -> "DROP"
      [] tok = "sql_query:" -> EmptyStr
      [] tok = "table:vehicles" -> "vehicles"
      [] OTHER -> Absent

\* The tokens the reasoning collaborator's replies are drawn from.
Alphabet ==
    {LBrace, RBrace, Commentary,
     "error:X", "error:", "sql_query:SELECT", "sql_query:DROP", "sql_query:"}

TextsUpTo(n) == UNION {[1..m -> Alphabet] : m \in 0..n}

\* Inputs of run_sqlite_query, and replies of the reasoning collaborator.
Texts == TextsUpTo(MaxLen)
ReplyTexts == TextsUpTo(MaxReply)

\* ---------------------------------------------------------- Python helpers
SetMin(S) == CHOOSE x \in S : \A y \in S : x <= y
SetMax(S) == CHOOSE x \in S : \A y \in S : x >= y

\* str.find / str.rfind: 0-based index of the first / last occurrence, or -1.
Find(s, c) ==
    LET at == {i \in 1..Len(s) : s[i] = c}
    IN  IF at = {} THEN -1 ELSE SetMin(at) - 1

RFind(s, c) ==
    LET at == {i \in 1..Len(s) : s[i] = c}
    IN  IF at = {} THEN -1 ELSE SetMax(at) - 1

\* s[a:b] with Python's treatment of negative and out-of-range indices.
PySlice(s, a, b) ==
    LET n == Len(s)
        norm(x) == IF x < 0 THEN (IF x + n < 0 THEN 0 ELSE x + n)
                   ELSE (IF x > n THEN n ELSE x)
        lo == norm(a)
        hi == norm(b)
    IN  IF lo >= hi THEN <<>> ELSE SubSeq(s, lo + 1, hi)

\* bool(v) for the JSON values of the model.
Truthy(v) == v \notin {None, EmptyStr, Absent}

\* dict.get(k): the value, or None when the key is absent.
Get(d, k) == IF d[k] = Absent THEN None ELSE d[k]

EmptyDict == [k \in Keys |-> Absent]

\* Outcomes of an operation that may raise.
Ok(v) == [raised |-> FALSE, exc |-> "", value |-> v]
Raise(e) == [raised |-> TRUE, exc |-> e, value |-> None]

\* json.loads on a text: a flat object "{" member* "}" parses (a repeated key
\* keeps its last value); anything else raises.
CanLoad(s) ==
    /\ Len(s) >= 2
    /\ s[1] = LBrace
    /\ s[Len(s)] = RBrace
    /\ \A i \in 2..(Len(s) - 1) : s[i] \in PairTokens

Loads(s) ==
    IF CanLoad(s)
    THEN Ok([k \in Keys |->
               LET at == {i \in 2..(Len(s) - 1) : KeyOf(s[i]) = k}
               IN  IF at = {} THEN Absent ELSE ValOf(s[SetMax(at)])])
    ELSE Raise("Expecting value")

\* json.dumps of a mapping with the single key "error".
DumpsError(tok) == <<LBrace, tok, RBrace>>

\* No search at all: the text is parsed as it is.
LocateWhole(s) == s

\* The JSON object a text is searched for: first "{" to last "}".
Locate(s) == PySlice(s, Find(s, LBrace), RFind(s, RBrace) + 1)

\* ================================================================ server.py
\* ------------------------------------------------------------ collaborators
\* The data dictionary file as pd.read_csv finds it.
DictFiles == {"readable", "missing", "unreadable"}

\* One call of anthropic_client.messages.create(...).content[0].text:
\* it raises, or yields a text.
LLMRaises == [raises |-> TRUE, text |-> <<>>]
LLMReplies(T) == {LLMRaises} \cup {[raises |-> FALSE, text |-> t] : t \in T}

\* The data store: whether the queried table exists, and its rows.
NoTable == [table |-> FALSE, rows |-> <<>>]
Stores == {NoTable} \cup {[table |-> TRUE, rows |-> [i \in 1..n |-> i]] : n \in 0..MaxRows}

\* ------------------------------------------------------------------ helper
\* A helper without its except clauses.
DictionaryWithoutExcept(file) ==
    IF file = "readable" THEN Ok("This is the data dictionary.")
    ELSE Raise("FileNotFoundError")

get_data_dictionary_description(file) ==
    CASE file = "readable" -> Ok("This is the data dictionary.")
      [] file = "missing" ->
           Ok("Data dictionary file not found. I will proceed without it.")
      [] OTHER -> Ok("Error reading data dictionary: e")

\* ------------------------------------------------------------------ tool 1
NerError == [EmptyDict EXCEPT !["error"] = ValOf("error:ner")]

NerTry(llm) ==
    IF llm.raises THEN Raise("e") ELSE Loads(Locate(llm.text))

\* A handler without its except clause.
NerExceptPropagates(o) == o

NerExcept(o) ==
    IF o.raised THEN Ok(NerError) ELSE o

ner_generator_dynamic(question, file, llm) ==
    LET data_dictionary == get_data_dictionary_description(file)
    IN  IF data_dictionary.raised THEN data_dictionary ELSE NerExcept(NerTry(llm))

\* ------------------------------------------------------------------ tool 2
CreateSqlTry(llm) ==
    IF llm.raises THEN Raise("e") ELSE Ok(llm.text)

CreateSqlExcept(o) ==
    IF o.raised THEN Ok(DumpsError("error:llm")) ELSE o

create_sql(question, ner_dict, llm) ==
    CreateSqlExcept(CreateSqlTry(llm))

\* ------------------------------------------------------------------ tool 3
\* The mappings run_sqlite_query returns.
DbError(msg) == [keys |-> {"error", "data"}, error |-> msg, data |-> <<>>]
DbData(rows) == [keys |-> {"data"}, error |-> <<>>, data |-> rows]

PreviousError(data) ==
    DbError(<<"Cannot execute due to previous error: ", data["error"]>>)
NoQuery == DbError(<<"No SQL query provided.">>)
\* An except clause whose mapping lacks the data list.
QueryFailedNoData(e) ==
    [keys |-> {"error"}, error |-> <<"Database query failed: ", e>>, data |-> <<>>]
QueryFailed(e) == DbError(<<"Database query failed: ", e>>)

\* What one call did to the store, besides its return value.
Effect(out, opened, executed, closed, store) ==
    [out |-> out, opened |-> opened, executed |-> executed, closed |-> closed,
     store |-> store]

\* cursor.execute(sql_query) followed by fetchall() and cursor.description.
\* A SELECT reads the rows; a DROP runs in autocommit mode and has no
\* description; either fails when the table is not there.
Execute(sql_query, store) ==
    CASE ~store.table ->
           [raised |-> TRUE, exc |-> "no such table", rows |-> <<>>,
            description |-> None, store |-> store]
      [] sql_query = "SELECT" ->
           [raised |-> FALSE, exc |-> "", rows |-> store.rows,
            description |-> "columns", store |-> store]
      [] OTHER ->
           [raised |-> FALSE, exc |-> "", rows |-> <<>>,
            description |-> None, store |-> NoTable]

\* Lines 111-119: connect, execute, fetch, read the column names, close.
RunQuery(sql_query, store, connects) ==
    IF ~connects
    THEN Effect(Raise("unable to open database file"), FALSE, FALSE, FALSE, store)
    ELSE LET x == Execute(sql_query, store)
         IN  IF x.raised
             THEN Effect(Raise(x.exc), TRUE, TRUE, FALSE, x.store)
             ELSE IF x.description = None
             THEN Effect(Raise("'NoneType' object is not iterable"),
                         TRUE, TRUE, FALSE, x.store)
             ELSE Effect(Ok(DbData(x.rows)), TRUE, TRUE, TRUE, x.store)

\* Early returns that test only for a missing query.
RefusalIgnoresError(data, sql_query) ==
    IF ~Truthy(sql_query)
    THEN [refused |-> TRUE, value |-> NoQuery]
    ELSE [refused |-> FALSE, value |-> NoQuery]

\* Lines 106-109: the two early returns; refused is FALSE when neither is taken.
Refusal(data, sql_query) ==
    IF Truthy(Get(data, "error"))
    THEN [refused |-> TRUE, value |-> PreviousError(data)]
    ELSE IF ~Truthy(sql_query)
    THEN [refused |-> TRUE, value |-> NoQuery]
    ELSE [refused |-> FALSE, value |-> NoQuery]

\* Lines 102-119: the body of the try block.
RunSqliteTry(sql_json, store, connects) ==
    LET json_str == Locate(sql_json)
        parsed == Loads(json_str)
    IN  IF parsed.raised
        THEN Effect(parsed, FALSE, FALSE, FALSE, store)
        ELSE LET data == parsed.value
                 sql_query == Get(data, "sql_query")
                 early == Refusal(data, sql_query)
             IN  IF early.refused
                 THEN Effect(Ok(early.value), FALSE, FALSE, FALSE, store)
                 ELSE RunQuery(sql_query, store, connects)

RunSqliteExcept(f) ==
    IF f.out.raised THEN [f EXCEPT !.out = Ok(QueryFailed(f.out.exc))] ELSE f

run_sqlite_query(sql_json, store, connects) ==
    RunSqliteExcept(RunSqliteTry(sql_json, store, connects))

\* ------------------------------------------------------------------ tool 4
FinalAnswerTry(llm) ==
    IF llm.raises THEN Raise("e") ELSE Ok(llm.text)

FinalAnswerExcept(o) ==
    IF o.raised THEN Ok(<<"Error formulating final answer: ", o.exc>>) ELSE o

generate_final_answer(question, query_result_dict, llm) ==
    FinalAnswerExcept(FinalAnswerTry(llm))

ToolOrder ==
    <<"ner_generator_dynamic", "create_sql", "run_sqlite_query", "generate_final_answer">>

\* ================================================================ client.py
VARIABLES
    session,        \* SQLAgentClient.session: None or the ClientSession
    exit_stack,     \* SQLAgentClient.exit_stack: the contexts entered, in order
    live,           \* resources acquired and not yet released
    cleanups,       \* how many times cleanup() has run
    mainpc,         \* where main() is
    propagating,    \* whether an exception is leaving main()
    connectDone,    \* whether connect() has returned normally
    askpc,          \* where ask() is: idle, invoke, await, returned, raised
    step,           \* the pipeline step ask() is at, 1..4
    question,       \* the question passed to ask()
    ner_dict, sql_json_str, db_dict,   \* the locals of ask()
    response,       \* the string ask() returned
    excStep,        \* the step whose code raised into ask()'s except clause, or 0
    excMsg,         \* str(e) of that exception
    calls,          \* the tools ask() invoked, in order
    received,       \* how many call_tool awaits have completed (result or raise)
    runs,           \* how many times ask() has been entered
    inflight,       \* the request call_tool has sent and not yet answered
    reply,          \* what the pending call_tool await will produce
    store,          \* the data store behind run_sqlite_query
    harness,        \* a direct invocation of one handler: its inputs
    last            \* the outcome of that direct invocation

clientVars == <<session, exit_stack, live, cleanups, mainpc, propagating,
                connectDone>>
askVars == <<askpc, step, question, ner_dict, sql_json_str, db_dict, response,
             excStep, excMsg, calls, received, runs>>
channelVars == <<inflight, reply>>
harnessVars == <<harness, last>>
vars == <<clientVars, askVars, channelVars, store, harnessVars>>

MainQuestion == "What is the maximum base MSRP in King county?"
Questions == {MainQuestion, "How many vehicles are there?"}

NoDb == [keys |-> {}, error |-> <<>>, data |-> <<>>]

\* The arguments of one call_tool request; a tool reads only its own.
Request(tool, q, nd, sj, qr) ==
    [tool |-> tool, question |-> q, ner_dict |-> nd, sql_json |-> sj,
     query_result_dict |-> qr]
NoRequest == Request("none", Absent, EmptyDict, <<>>, NoDb)

\* What awaiting call_tool produces: an exception, or a result whose first
\* content item exposes the payload as .data, as .text, or is missing.
Shapes == {"data", "text", "empty"}
Result(shape, d, t, db) ==
    [kind |-> "result", exc |-> "", shape |-> shape, dict |-> d, text |-> t, db |-> db]
Raised(e) ==
    [kind |-> "raise", exc |-> e, shape |-> "empty", dict |-> EmptyDict,
     text |-> <<>>, db |-> NoDb]
NoReply ==
    [kind |-> "none", exc |-> "", shape |-> "empty", dict |-> EmptyDict,
     text |-> <<>>, db |-> NoDb]

\* Transport, protocol and invocation failures of call_tool.
CallErrors == {"Connection closed", "Timed out waiting for response"}

NotConnected == <<"Error: Not connected to the server.">>
CriticalPrefix == "A critical error occurred in the pipeline: "
CriticalError(e) == <<CriticalPrefix, e>>

ExtractErrors == {"list index out of range", "object has no attribute"}
\* An extraction that treats a result carrying an error marker as a failure.
ExtractRejectsErrorMarker(r, attr) ==
    CASE r.shape = "empty" -> Raise("list index out of range")
      [] r.shape # attr -> Raise("object has no attribute")
      [] "error" \in r.db.keys -> Raise("object has no attribute")
      [] OTHER -> Ok(r)

\* result.content[0].data / result.content[0].text
Extract(r, attr) ==
    CASE r.shape = "empty" -> Raise("list index out of range")
      [] r.shape # attr -> Raise("object has no attribute")
      [] OTHER -> Ok(r)

\* A narrower except clause: only failures of call_tool are caught.
CatchesCallErrorsOnly(e) == e \in CallErrors

\* Line 81: "except Exception" takes every exception a step can raise.
Catches(e) == e \in CallErrors \cup ExtractErrors

\* An except clause that drops the exception's message.
ErrorStringWithoutMessage(k, e) == <<CriticalPrefix>>

\* Line 82: the string ask() returns when step k raised e.
ErrorStringAt(k, e) == CriticalError(e)

NoHarness ==
    [tool |-> "none", state |-> "none", question |-> Absent, file |-> "readable",
     llm |-> LLMRaises, ner_dict |-> EmptyDict, sql_json |-> <<>>,
     query_result_dict |-> NoDb]
NoCall ==
    [tool |-> "none", raised |-> FALSE, caught |-> "", dict |-> EmptyDict,
     text |-> <<>>, db |-> NoDb, opened |-> FALSE, executed |-> FALSE,
     closed |-> FALSE]

\* ---------------------------------------------------------------- __init__
Init ==
    /\ session = None
    /\ exit_stack = <<>>
    /\ live = {}
    /\ cleanups = 0
    /\ mainpc = "connect_stdio"
    /\ propagating = FALSE
    /\ connectDone = FALSE
    /\ askpc = "idle"
    /\ step = 0
    /\ question \in Questions
    /\ ner_dict = EmptyDict
    /\ sql_json_str = <<>>
    /\ db_dict = NoDb
    /\ response = <<>>
    /\ excStep = 0
    /\ excMsg = ""
    /\ calls = <<>>
    /\ received = 0
    /\ runs = 0
    /\ inflight = NoRequest
    /\ reply = NoReply
    /\ store \in Stores
    /\ harness = NoHarness
    /\ last = NoCall

\* ----------------------------------------------------------------- connect
\* Line 42: the except clause re-raises; main's finally takes over.
ConnectFails ==
    /\ mainpc' = "cleanup"
    /\ propagating' = TRUE

\* Line 31: enter stdio_client(server_params), which spawns the server.
ConnectStdio ==
    /\ mainpc = "connect_stdio"
    /\ \E ok \in BOOLEAN :
         IF ok
         THEN /\ exit_stack' = Append(exit_stack, "stdio_client")
              /\ live' = live \cup {"stdio_client"}
              /\ mainpc' = "connect_session"
              /\ UNCHANGED propagating
         ELSE /\ ConnectFails
              /\ UNCHANGED <<exit_stack, live>>
    /\ UNCHANGED <<session, cleanups, connectDone, askVars, channelVars, store,
                   harnessVars>>

\* Line 33: enter ClientSession(stdio, write) and keep it in self.session.
ConnectSession ==
    /\ mainpc = "connect_session"
    /\ \E ok \in BOOLEAN :
         IF ok
         THEN /\ exit_stack' = Append(exit_stack, "ClientSession")
              /\ live' = live \cup {"ClientSession"}
              /\ session' = "ClientSession"
              /\ mainpc' = "connect_initialize"
              /\ UNCHANGED propagating
         ELSE /\ ConnectFails
              /\ UNCHANGED <<exit_stack, live, session>>
    /\ UNCHANGED <<cleanups, connectDone, askVars, channelVars, store, harnessVars>>

\* Line 34: session.initialize().
ConnectInitialize ==
    /\ mainpc = "connect_initialize"
    /\ \E ok \in BOOLEAN :
         IF ok
         THEN mainpc' = "connect_list_tools" /\ UNCHANGED propagating
         ELSE ConnectFails
    /\ UNCHANGED <<session, exit_stack, live, cleanups, connectDone, askVars,
                   channelVars, store, harnessVars>>

\* Lines 36-39: session.list_tools() and the listing.
ConnectListTools ==
    /\ mainpc = "connect_list_tools"
    /\ \E ok \in BOOLEAN :
         IF ok
         THEN mainpc' = "ask" /\ connectDone' = TRUE /\ UNCHANGED propagating
         ELSE ConnectFails /\ UNCHANGED connectDone
    /\ UNCHANGED <<session, exit_stack, live, cleanups, askVars, channelVars,
                   store, harnessVars>>

\* --------------------------------------------------------------------- ask
\* An ask() without the guard on self.session.
AskEnterUnguarded ==
    /\ mainpc = "ask"
    /\ askpc = "idle"
    /\ askpc' = "invoke"
    /\ step' = 1
    /\ runs' = runs + 1
    /\ UNCHANGED <<clientVars, question, ner_dict, sql_json_str, db_dict, response,
                   excStep, excMsg, calls, received, channelVars, store, harnessVars>>

\* Lines 46-49: the guard on self.session.
AskEnter ==
    /\ mainpc = "ask"
    /\ askpc = "idle"
    /\ IF session = None
       THEN /\ response' = NotConnected
            /\ askpc' = "returned"
            /\ UNCHANGED step
       ELSE /\ askpc' = "invoke"
            /\ step' = 1
            /\ UNCHANGED response
    /\ runs' = runs + 1
    /\ UNCHANGED <<clientVars, question, ner_dict, sql_json_str, db_dict, excStep,
                   excMsg, calls, received, channelVars, store, harnessVars>>

\* Arguments in which step 3 is sent only the JSON object found in the text.
StepRequestCleansText(k, q, nd, sj, db) ==
    CASE k = 1 -> Request(ToolOrder[1], q, EmptyDict, <<>>, NoDb)
      [] k = 2 -> Request(ToolOrder[2], q, nd, <<>>, NoDb)
      [] k = 3 -> Request(ToolOrder[3], Absent, EmptyDict, Locate(sj), NoDb)
      [] OTHER -> Request(ToolOrder[4], q, EmptyDict, <<>>, db)

\* The arguments ask() builds for each step (lines 53, 61, 68, 76).
StepRequest(k, q, nd, sj, db) ==
    CASE k = 1 -> Request(ToolOrder[1], q, EmptyDict, <<>>, NoDb)
      [] k = 2 -> Request(ToolOrder[2], q, nd, <<>>, NoDb)
      [] k = 3 -> Request(ToolOrder[3], Absent, EmptyDict, sj, NoDb)
      [] OTHER -> Request(ToolOrder[4], q, EmptyDict, <<>>, db)

\* call_tool is started as a task and ask() goes on without awaiting it.
AskInvokeNoAwait ==
    /\ askpc = "invoke"
    /\ inflight' = StepRequest(step, question, ner_dict, sql_json_str, db_dict)
    /\ calls' = Append(calls, ToolOrder[step])
    /\ askpc' = IF step = 4 THEN "await" ELSE "invoke"
    /\ step' = IF step = 4 THEN step ELSE step + 1
    /\ UNCHANGED <<clientVars, question, ner_dict, sql_json_str, db_dict,
                   response, excStep, excMsg, received, runs, reply, store,
                   harnessVars>>

\* session.call_tool(...) is sent; ask() is suspended on the await.
AskInvoke ==
    /\ askpc = "invoke"
    /\ inflight' = StepRequest(step, question, ner_dict, sql_json_str, db_dict)
    /\ calls' = Append(calls, ToolOrder[step])
    /\ askpc' = "await"
    /\ UNCHANGED <<clientVars, step, question, ner_dict, sql_json_str, db_dict,
                   response, excStep, excMsg, received, runs, reply, store,
                   harnessVars>>

\* An except clause that invokes the failed step again.
AskExceptRetry(e) ==
    /\ excStep' = step
    /\ excMsg' = e
    /\ askpc' = "invoke"
    /\ UNCHANGED <<response, step, ner_dict, sql_json_str, db_dict>>

\* An except clause that swallows the exception and goes on to the next step.
AskExceptContinue(e) ==
    /\ excStep' = step
    /\ excMsg' = e
    /\ response' = ErrorStringAt(step, e)
    /\ askpc' = IF step = 4 THEN "returned" ELSE "invoke"
    /\ step' = IF step = 4 THEN step ELSE step + 1
    /\ UNCHANGED <<ner_dict, sql_json_str, db_dict>>

\* Lines 81-82: the except clause.
AskExcept(e) ==
    /\ excStep' = step
    /\ excMsg' = e
    /\ IF Catches(e)
       THEN response' = ErrorStringAt(step, e) /\ askpc' = "returned"
       ELSE askpc' = "raised" /\ UNCHANGED response
    /\ UNCHANGED <<step, ner_dict, sql_json_str, db_dict>>

\* The attribute each step reads from content[0] (lines 55, 63, 70, 79).
StepAttr(k) == IF k \in {1, 3} THEN "data" ELSE "text"

\* The await completes: the exception reaches the except clause, or the
\* payload is extracted and the next step (or the return) follows.
AskReceive ==
    /\ askpc = "await"
    /\ reply.kind # "none"
    /\ received' = received + 1
    /\ inflight' = NoRequest
    /\ reply' = NoReply
    /\ IF reply.kind = "raise"
       THEN AskExcept(reply.exc)
       ELSE LET x == Extract(reply, StepAttr(step))
            IN  IF x.raised
                THEN AskExcept(x.exc)
                ELSE /\ ner_dict' = IF step = 1 THEN reply.dict ELSE ner_dict
                     /\ sql_json_str' = IF step = 2 THEN reply.text ELSE sql_json_str
                     /\ db_dict' = IF step = 3 THEN reply.db ELSE db_dict
                     /\ response' = IF step = 4 THEN reply.text ELSE response
                     /\ askpc' = IF step = 4 THEN "returned" ELSE "invoke"
                     /\ step' = IF step = 4 THEN step ELSE step + 1
                     /\ UNCHANGED <<excStep, excMsg>>
    /\ UNCHANGED <<clientVars, question, calls, runs, store, harnessVars>>

\* ----------------------------------------------------- the channel's far end
\* Replies of the reasoning collaborator within a pipeline run.
PipelineTexts ==
    { <<LBrace, "sql_query:SELECT", RBrace>>,
      <<Commentary, LBrace, "sql_query:SELECT", RBrace, Commentary>>,
      <<LBrace, "sql_query:DROP", RBrace>>,
      <<LBrace, "table:vehicles", RBrace>>,
      <<LBrace, "error:X", RBrace>>,
      <<LBrace, "error:", "sql_query:SELECT", RBrace>>,
      <<LBrace, "sql_query:", RBrace>>,
      <<Commentary>>,
      <<>> }

\* call_tool raises: the request or its response is lost, or the remote call
\* is reported as failed.
CallRaises ==
    /\ inflight.tool # "none"
    /\ reply.kind # "raise"
    /\ \E e \in CallErrors : reply' = Raised(e)
    /\ UNCHANGED <<clientVars, askVars, inflight, store, harnessVars>>

\* The handlers run in the process stdio_client spawned (line 31), which is
\* terminated when that context is exited.
ServerRuns == "stdio_client" \in live

ServeNer ==
    /\ inflight.tool = "ner_generator_dynamic"
    /\ reply.kind = "none"
    /\ ServerRuns
    /\ \E file \in DictFiles, llm \in LLMReplies(PipelineTexts), shape \in Shapes :
         LET o == ner_generator_dynamic(inflight.question, file, llm)
         IN  reply' = IF o.raised THEN Raised(o.exc)
                      ELSE Result(shape, o.value, <<>>, NoDb)
    /\ UNCHANGED <<clientVars, askVars, inflight, store, harnessVars>>

ServeCreateSql ==
    /\ inflight.tool = "create_sql"
    /\ reply.kind = "none"
    /\ ServerRuns
    /\ \E llm \in LLMReplies(PipelineTexts), shape \in Shapes :
         LET o == create_sql(inflight.question, inflight.ner_dict, llm)
         IN  reply' = IF o.raised THEN Raised(o.exc)
                      ELSE Result(shape, EmptyDict, o.value, NoDb)
    /\ UNCHANGED <<clientVars, askVars, inflight, store, harnessVars>>

ServeRunSqlite ==
    /\ inflight.tool = "run_sqlite_query"
    /\ reply.kind = "none"
    /\ ServerRuns
    /\ \E connects \in BOOLEAN, shape \in Shapes :
         LET f == run_sqlite_query(inflight.sql_json, store, connects)
         IN  /\ reply' = IF f.out.raised THEN Raised(f.out.exc)
                         ELSE Result(shape, EmptyDict, <<>>, f.out.value)
             /\ store' = f.store
    /\ UNCHANGED <<clientVars, askVars, inflight, harnessVars>>

ServeFinalAnswer ==
    /\ inflight.tool = "generate_final_answer"
    /\ reply.kind = "none"
    /\ ServerRuns
    /\ \E llm \in LLMReplies(PipelineTexts), shape \in Shapes :
         LET o == generate_final_answer(inflight.question,
                                        inflight.query_result_dict, llm)
         IN  reply' = IF o.raised THEN Raised(o.exc)
                      ELSE Result(shape, EmptyDict, o.value, NoDb)
    /\ UNCHANGED <<clientVars, askVars, inflight, store, harnessVars>>

\* -------------------------------------------------------------------- main
\* Lines 98-103: ask() has returned and main prints the answer; an exception
\* leaving ask() would skip the printing and reach the finally clause.
MainPrint ==
    /\ mainpc = "ask"
    /\ askpc \in {"returned", "raised"}
    /\ mainpc' = "cleanup"
    /\ propagating' = (askpc = "raised")
    /\ UNCHANGED <<session, exit_stack, live, cleanups, connectDone, askVars,
                   channelVars, store, harnessVars>>

Range(f) == {f[i] : i \in DOMAIN f}

\* An aclose() that exits only the context entered last.
ACloseLastOnly(stack, acquired) ==
    IF stack = <<>> THEN [stack |-> <<>>, live |-> acquired]
    ELSE [stack |-> SubSeq(stack, 1, Len(stack) - 1),
          live |-> acquired \ {stack[Len(stack)]}]

\* exit_stack.aclose(): every entered context is exited, last entered first.
AClose(stack, acquired) == [stack |-> <<>>, live |-> acquired \ Range(stack)]

\* Lines 84-88 under the finally of main (lines 105-106).
Cleanup ==
    /\ mainpc = "cleanup"
    /\ LET c == AClose(exit_stack, live)
       IN  /\ exit_stack' = c.stack
           /\ live' = c.live
    /\ cleanups' = cleanups + 1
    /\ mainpc' = "done"
    /\ UNCHANGED <<session, propagating, connectDone, askVars, channelVars, store,
                   harnessVars>>

Next ==
    \/ ConnectStdio
    \/ ConnectSession
    \/ ConnectInitialize
    \/ ConnectListTools
    \/ AskEnter
    \/ AskInvoke
    \/ CallRaises
    \/ ServeNer
    \/ ServeCreateSql
    \/ ServeRunSqlite
    \/ ServeFinalAnswer
    \/ AskReceive
    \/ MainPrint
    \/ Cleanup

Spec == Init /\ [][Next]_vars

\* The event loop runs every coroutine that can run, and every call_tool
\* await completes with a result or an exception.
FairSpec == Spec /\ WF_vars(Next)

\* ================================================= the client, called freely
\* SQLAgentClient is a class: a caller other than main() may await ask() where
\* main() does not: on a client never connected, after connect() raised and
\* the caller caught it, after an earlier ask(), after cleanup(). Every call
\* is awaited before the next one is made, as in main().
MaxRuns == 2

CallerAsks ==
    /\ mainpc \in {"connect_stdio", "cleanup", "done"}
    /\ askpc \in {"idle", "returned"}
    /\ runs < MaxRuns
    /\ mainpc' = "ask"
    /\ askpc' = "idle"
    /\ step' = 0
    /\ question' \in Questions
    /\ ner_dict' = EmptyDict
    /\ sql_json_str' = <<>>
    /\ db_dict' = NoDb
    /\ response' = <<>>
    /\ excStep' = 0
    /\ excMsg' = ""
    /\ calls' = <<>>
    /\ received' = 0
    /\ UNCHANGED <<session, exit_stack, live, cleanups, propagating, connectDone,
                   runs, channelVars, store, harnessVars>>

ApiNext ==
    \/ Next
    \/ CallerAsks

ApiSpec == Init /\ [][ApiNext]_vars

\* ============================================== the handlers, called directly
\* Each handler is independently invocable: one call of one handler, on
\* inputs and collaborator behaviours drawn from bounded sets.
HarnessQuestion == MainQuestion
NerInputs == {[EmptyDict EXCEPT !["table"] = "vehicles"], NerError}
DbInputs == {DbData(<<>>), DbData(<<1>>), NoQuery}

Harness(tool, file, llm, nd, sj, qr) ==
    [tool |-> tool, state |-> "ready", question |-> HarnessQuestion, file |-> file,
     llm |-> llm, ner_dict |-> nd, sql_json |-> sj, query_result_dict |-> qr]

ToolInit ==
    /\ session = None
    /\ exit_stack = <<>>
    /\ live = {}
    /\ cleanups = 0
    /\ mainpc = "none"
    /\ propagating = FALSE
    /\ connectDone = FALSE
    /\ askpc = "idle"
    /\ step = 0
    /\ question = HarnessQuestion
    /\ ner_dict = EmptyDict
    /\ sql_json_str = <<>>
    /\ db_dict = NoDb
    /\ response = <<>>
    /\ excStep = 0
    /\ excMsg = ""
    /\ calls = <<>>
    /\ received = 0
    /\ runs = 0
    /\ inflight = NoRequest
    /\ reply = NoReply
    /\ \/ /\ \E file \in DictFiles, llm \in LLMReplies(ReplyTexts) :
                harness = Harness(ToolOrder[1], file, llm, EmptyDict, <<>>, NoDb)
          /\ store = NoTable
       \/ /\ \E llm \in LLMReplies(ReplyTexts), nd \in NerInputs :
                harness = Harness(ToolOrder[2], "readable", llm, nd, <<>>, NoDb)
          /\ store = NoTable
       \/ /\ \E sj \in Texts :
                harness = Harness(ToolOrder[3], "readable", LLMRaises, EmptyDict, sj, NoDb)
          /\ store \in Stores
       \/ /\ \E llm \in LLMReplies(ReplyTexts), qr \in DbInputs :
                harness = Harness(ToolOrder[4], "readable", llm, EmptyDict, <<>>, qr)
          /\ store = NoTable
    /\ last = NoCall

Called(tool, o, caught, d, t, db) ==
    [tool |-> tool, raised |-> o.raised, caught |-> caught, dict |-> d, text |-> t,
     db |-> db, opened |-> FALSE, executed |-> FALSE, closed |-> FALSE]

CallNer ==
    /\ harness.tool = "ner_generator_dynamic"
    /\ harness.state = "ready"
    /\ LET o == ner_generator_dynamic(harness.question, harness.file, harness.llm)
           t == NerTry(harness.llm)
       IN  last' = Called(harness.tool, o, t.exc,
                          IF o.raised THEN EmptyDict ELSE o.value, <<>>, NoDb)
    /\ harness' = [harness EXCEPT !.state = "returned"]
    /\ UNCHANGED <<clientVars, askVars, channelVars, store>>

CallCreateSql ==
    /\ harness.tool = "create_sql"
    /\ harness.state = "ready"
    /\ LET o == create_sql(harness.question, harness.ner_dict, harness.llm)
           t == CreateSqlTry(harness.llm)
       IN  last' = Called(harness.tool, o, t.exc, EmptyDict,
                          IF o.raised THEN <<>> ELSE o.value, NoDb)
    /\ harness' = [harness EXCEPT !.state = "returned"]
    /\ UNCHANGED <<clientVars, askVars, channelVars, store>>

CallRunSqlite ==
    /\ harness.tool = "run_sqlite_query"
    /\ harness.state = "ready"
    /\ \E connects \in BOOLEAN :
         LET f == run_sqlite_query(harness.sql_json, store, connects)
             t == RunSqliteTry(harness.sql_json, store, connects)
         IN  /\ last' = [Called(harness.tool, f.out, t.out.exc, EmptyDict, <<>>,
                                IF f.out.raised THEN NoDb ELSE f.out.value)
                           EXCEPT !.opened = f.opened, !.executed = f.executed,
                                  !.closed = f.closed]
             /\ store' = f.store
    /\ harness' = [harness EXCEPT !.state = "returned"]
    /\ UNCHANGED <<clientVars, askVars, channelVars>>

CallFinalAnswer ==
    /\ harness.tool = "generate_final_answer"
    /\ harness.state = "ready"
    /\ LET o == generate_final_answer(harness.question, harness.query_result_dict,
                                      harness.llm)
           t == FinalAnswerTry(harness.llm)
       IN  last' = Called(harness.tool, o, t.exc, EmptyDict,
                          IF o.raised THEN <<>> ELSE o.value, NoDb)
    /\ harness' = [harness EXCEPT !.state = "returned"]
    /\ UNCHANGED <<clientVars, askVars, channelVars, store>>

ToolNext ==
    \/ CallNer
    \/ CallCreateSql
    \/ CallRunSqlite
    \/ CallFinalAnswer

ToolSpec == ToolInit /\ [][ToolNext]_vars

\* ================================================================== claims
Returned == askpc = "returned"
Connected == session # None

\* A step of ask() that returns without having entered the except clause
\* returns the text of the reply to the fourth invocation.
ReturnsFourthText ==
    (askpc = "await" /\ askpc' = "returned" /\ excStep' = 0)
        => (step = 4 /\ reply.kind = "result" /\ response' = reply.text)

\* C1: ask() never raises past its own boundary: whatever the four call_tool
\* awaits produce (any payload, any exception) and whatever fails while a
\* result is read from a response, ask() returns a string, and that string is
\* the text of the fourth reply or an error string.
C1_AskNeverRaises ==
    /\ [](askpc # "raised")
    /\ [](mainpc = "ask" => ~propagating)
    /\ [](Returned => \/ excStep = 0
                      \/ response = CriticalError(excMsg))
    /\ [][ReturnsFourthText]_vars

C1_Witness ==
    /\ Returned
    /\ excStep = 4
    /\ excMsg \in ExtractErrors
    /\ response = CriticalError(excMsg)

\* C2: within one run of ask() the tools are invoked in the fixed order
\* ner_generator_dynamic, create_sql, run_sqlite_query, generate_final_answer;
\* step k+1 is invoked only after the await of step k has completed; no tool
\* is invoked twice, and all four are invoked when no step raises.
C2_FixedOrderOnce ==
    /\ Len(calls) <= Len(ToolOrder)
    /\ calls = SubSeq(ToolOrder, 1, Len(calls))
    /\ Len(calls) \in {received, received + 1}
    /\ (inflight.tool # "none") <=> (Len(calls) = received + 1)
    /\ (inflight.tool # "none") => inflight.tool = calls[Len(calls)]
    /\ (Returned /\ Connected /\ excStep = 0) => calls = ToolOrder

C2_Witness ==
    /\ Returned
    /\ excStep = 0
    /\ calls = ToolOrder
    /\ received = 4

\* C3: when the invocation of step k raises, no later step is invoked, the
\* failed step is not invoked again, and ask() returns one error string.
C3_RaiseAborts ==
    (excStep # 0 /\ excMsg \in CallErrors) =>
        /\ Len(calls) = excStep
        /\ calls = SubSeq(ToolOrder, 1, excStep)
        /\ received = excStep
        /\ inflight = NoRequest
        /\ Returned
        /\ response = CriticalError(excMsg)

C3_Witness ==
    /\ mainpc = "done"
    /\ excStep = 2
    /\ excMsg \in CallErrors
    /\ calls = <<"ner_generator_dynamic", "create_sql">>

\* C4 as claimed: the error string ask() returns for an exception at step k
\* identifies step k, that is, differs from the string it would return had
\* another step raised the same exception, and carries the exception's message.
C4_ErrorNamesStep ==
    (Returned /\ excStep # 0) =>
        /\ response = ErrorStringAt(excStep, excMsg)
        /\ \A j \in (1..4) \ {excStep} : ErrorStringAt(j, excMsg) # response
        /\ \E i \in 1..Len(response) : response[i] = excMsg

\* C4 as amended: the error string is the fixed prefix followed by the
\* exception's message, and is the same string whichever step raised.
C4_ErrorCarriesMessageOnly ==
    (Returned /\ excStep # 0) =>
        /\ response = <<CriticalPrefix, excMsg>>
        /\ \A j \in 1..4 : ErrorStringAt(j, excMsg) = response

C4_Witness ==
    /\ Returned
    /\ excStep = 3
    /\ excMsg = "Connection closed"
    /\ response = <<CriticalPrefix, "Connection closed">>

\* C5: in main the session is closed on every exit path: cleanup runs, runs
\* once, and releases every resource connect had acquired, whether connect
\* failed, or ask() returned an answer or an error string.
C5_CleanupOnEveryPath ==
    /\ [](cleanups <= 1)
    /\ [](mainpc = "done" => cleanups = 1 /\ live = {} /\ exit_stack = <<>>)
    /\ [](cleanups = 0 => live = Range(exit_stack))
    /\ <>(mainpc = "done")

C5_Witness ==
    /\ mainpc = "done"
    /\ propagating
    /\ session = "ClientSession"
    /\ cleanups = 1
    /\ live = {}

\* ------------------------------------------------- claims about the handlers
HandlerReturned(tool) == harness.tool = tool /\ harness.state = "returned"

\* The JSON object run_sqlite_query finds in its input text.
InputObject == Loads(Locate(harness.sql_json))

\* A text whose JSON object has a truthy "error" member.
ErrorMarked(t) ==
    LET o == Loads(Locate(t))
    IN  ~o.raised /\ Truthy(Get(o.value, "error"))

NothingRun == ~last.opened /\ ~last.executed
ErrorAndNoData ==
    /\ "error" \in last.db.keys
    /\ last.db.error # <<>>
    /\ "data" \in last.db.keys
    /\ last.db.data = <<>>

\* C6 as claimed: when the JSON object in the input text has an error key, or
\* has no sql_query, run_sqlite_query opens no connection, executes nothing
\* and returns a non-empty error with data = [].
C6_RefusesOnErrorKey ==
    (/\ HandlerReturned("run_sqlite_query")
     /\ ~InputObject.raised
     /\ \/ InputObject.value["error"] # Absent
        \/ InputObject.value["sql_query"] = Absent)
        => NothingRun /\ ErrorAndNoData

\* C6 as amended: the same, for an error key whose value is truthy.
C6_RefusesOnTruthyError ==
    (/\ HandlerReturned("run_sqlite_query")
     /\ ~InputObject.raised
     /\ \/ Truthy(Get(InputObject.value, "error"))
        \/ InputObject.value["sql_query"] = Absent)
        => NothingRun /\ ErrorAndNoData

C6_Witness ==
    /\ HandlerReturned("run_sqlite_query")
    /\ harness.sql_json = <<LBrace, "error:X", "sql_query:SELECT", RBrace>>
    /\ store.table
    /\ NothingRun
    /\ last.db = DbError(<<"Cannot execute due to previous error: ", "X">>)

\* C7: when step 1 returned a mapping with an error key, the text create_sql
\* returns for it carries an error marker and no sql_query, and the mapping
\* run_sqlite_query returns for that text has data = [] and a non-empty error.
C7_ErrorForwarded ==
    (ner_dict["error"] # Absent /\ step >= 3) =>
        /\ ErrorMarked(sql_json_str)
        /\ Loads(Locate(sql_json_str)).value["sql_query"] = Absent
        /\ step = 4 => /\ db_dict.data = <<>>
                       /\ "error" \in db_dict.keys
                       /\ db_dict.error # <<>>

\* The failures of a handler's collaborators, as the claim lists them.
ReasoningRaises ==
    /\ harness.tool \in {"ner_generator_dynamic", "create_sql", "generate_final_answer"}
    /\ harness.llm.raises
Unparseable(tools) ==
    /\ harness.tool \in tools
    /\ ~harness.llm.raises
    /\ Loads(Locate(harness.llm.text)).raised
DictionaryUnreadable ==
    /\ harness.tool = "ner_generator_dynamic"
    /\ harness.file # "readable"
StoreRejects ==
    /\ harness.tool = "run_sqlite_query"
    /\ last.opened
    /\ last.caught # ""

\* The error marker of each handler's result shape.
Marked ==
    CASE harness.tool = "ner_generator_dynamic" -> Truthy(Get(last.dict, "error"))
      [] harness.tool = "create_sql" -> ErrorMarked(last.text)
      [] harness.tool = "run_sqlite_query" -> ErrorAndNoData
      [] OTHER -> last.text # <<>> /\ last.text[1] = "Error formulating final answer: "

\* C8 as claimed: for every failure of a collaborator (reasoning service
\* raising, unparseable reasoning output, data dictionary unreadable, store
\* rejecting the statement) the handler does not raise and returns a value
\* carrying an error marker.
C8_EveryFailureMarked ==
    (/\ harness.state = "returned"
     /\ \/ ReasoningRaises
        \/ Unparseable({"ner_generator_dynamic", "create_sql"})
        \/ DictionaryUnreadable
        \/ StoreRejects)
        => ~last.raised /\ Marked

\* C8 as amended: no handler raises; its result carries an error marker when
\* the reasoning service raises, when ner_generator_dynamic cannot parse the
\* reasoning output, and when the store rejects the statement.
C8_NoHandlerRaises ==
    harness.state = "returned" =>
        /\ ~last.raised
        /\ (\/ ReasoningRaises
            \/ Unparseable({"ner_generator_dynamic"})
            \/ StoreRejects) => Marked

C8_Witness ==
    /\ HandlerReturned("ner_generator_dynamic")
    /\ harness.file = "missing"
    /\ harness.llm.raises
    /\ ~last.raised
    /\ last.dict = NerError

\* An error marker among the artifacts ask() has received.
MarkerSeen ==
    \/ Truthy(Get(ner_dict, "error"))
    \/ step >= 3 /\ ErrorMarked(sql_json_str)
    \/ "error" \in db_dict.keys

WellFormedReplyAdvances ==
    (/\ askpc = "await"
     /\ askpc' # "await"
     /\ reply.kind = "result"
     /\ reply.shape = StepAttr(step))
        => /\ excStep' = 0
           /\ step = 1 => ner_dict' = reply.dict
           /\ step = 2 => sql_json_str' = reply.text
           /\ step = 3 => db_dict' = reply.db
           /\ step < 4 => askpc' = "invoke" /\ step' = step + 1
           /\ step = 4 => askpc' = "returned" /\ response' = reply.text

C10_ResultShape ==
    HandlerReturned("run_sqlite_query") =>
        /\ ~last.raised
        /\ \/ last.db.keys = {"data"}
           \/ last.db.keys = {"error", "data"} /\ last.db.data = <<>>
        /\ "error" \in last.db.keys => last.db.data = <<>> /\ last.db.error # <<>>

C10_Witness ==
    /\ HandlerReturned("run_sqlite_query")
    /\ last.db.keys = {"data"}
    /\ Len(last.db.data) >= 1
    /\ last.closed

\* C11: the pipeline never mutates the data store: no call of
\* run_sqlite_query, whatever the sql_query text it is given, changes the
\* store's contents.
C11_StoreNeverMutated ==
    [][store' = store]_vars

\* C12: data threading in ask(): every invocation is built from the question
\* and the artifact of the step before it only. Step 1 is sent the question;
\* step 2 the question and exactly the mapping step 1 replied; step 3 exactly
\* the text step 2 replied, unchanged; step 4 the question and exactly the
\* mapping step 3 replied. The question is never modified, and an artifact is
\* never altered once it is produced.
C12_Sends ==
    (inflight.tool = "none" /\ inflight'.tool # "none") =>
        /\ step = 1 => inflight' = Request(ToolOrder[1], question, EmptyDict, <<>>, NoDb)
        /\ step = 2 => inflight' = Request(ToolOrder[2], question, ner_dict, <<>>, NoDb)
        /\ step = 3 => inflight' = Request(ToolOrder[3], Absent, EmptyDict,
                                           sql_json_str, NoDb)
        /\ step = 4 => inflight' = Request(ToolOrder[4], question, EmptyDict, <<>>,
                                           db_dict)

C12_Keeps ==
    (askpc = "await" /\ askpc' = "invoke") =>
        /\ step = 1 => ner_dict' = reply.dict
        /\ step = 2 => sql_json_str' = reply.text
        /\ step = 3 => db_dict' = reply.db

C12_DataThreading ==
    [][ /\ question' = question
        /\ C12_Sends
        /\ C12_Keeps
        /\ step >= 2 => ner_dict' = ner_dict
        /\ step >= 3 => sql_json_str' = sql_json_str
        /\ step >= 4 => db_dict' = db_dict ]_vars

C12_Witness ==
    /\ inflight.tool = ToolOrder[4]
    /\ inflight.question = question
    /\ inflight.query_result_dict = db_dict
    /\ db_dict.keys = {"data"}
    /\ sql_json_str = <<Commentary, LBrace, "sql_query:SELECT", RBrace, Commentary>>
    /\ ner_dict["table"] = "vehicles"

\* C13: a session has at most one pipeline in flight: at no time are two tool
\* invocations outstanding on the session, an invocation is outstanding only
\* while its run of ask() is suspended on it, and a run of ask() starts only
\* when the run before it has nothing outstanding, so the invocations of two
\* runs on the same client never interleave.
Outstanding == Len(calls) - received

C13_OneAtATime ==
    /\ Outstanding \in {0, 1}
    /\ inflight.tool # "none" =>
          /\ askpc = "await"
          /\ Outstanding = 1
          /\ inflight.tool = calls[Len(calls)]
    /\ askpc # "await" => Outstanding = 0 /\ inflight.tool = "none" /\ reply.kind = "none"

ObjectAt(s, i, j) ==
    /\ i \in 1..Len(s)
    /\ j \in i..Len(s)
    /\ CanLoad(SubSeq(s, i, j))

BraceFreeAround(s, i, j) ==
    /\ \A k \in 1..(i - 1) : s[k] # LBrace
    /\ \A k \in (j + 1)..Len(s) : s[k] # RBrace

\* run_sqlite_query has acted on the members of the object d: it refused on
\* d's error, or for want of d's sql_query, or took d's sql_query to the store.
ActedOn(d) ==
    LET err == Get(d, "error")
        sql == Get(d, "sql_query")
    IN  /\ Truthy(err) => last.db = PreviousError(d) /\ ~last.opened
        /\ (~Truthy(err) /\ ~Truthy(sql)) => last.db = NoQuery /\ ~last.opened
        /\ (~Truthy(err) /\ Truthy(sql)) =>
              /\ ~last.opened => last.caught = "unable to open database file"
              /\ last.opened =>
                    /\ last.executed
                    /\ sql = "DROP" => ~store.table
                    /\ (sql = "SELECT" /\ store.table) => last.db = DbData(store.rows)

LocatedAndActedOn(s, i, j) ==
    /\ Locate(s) = SubSeq(s, i, j)
    /\ ActedOn(Loads(SubSeq(s, i, j)).value)

\* C14: for every query-builder text made of a JSON object with arbitrary
\* commentary before and/or after it, the substring from the first "{" to the
\* last "}" is exactly that object, and run_sqlite_query acts on the sql_query
\* (or error) of that object.
C14_LocatesObject ==
    HandlerReturned("run_sqlite_query") =>
        \A i, j \in 1..Len(harness.sql_json) :
            ObjectAt(harness.sql_json, i, j) =>
                LocatedAndActedOn(harness.sql_json, i, j)

\* C14, amended: the same, for commentary that has no "{" before the object
\* and no "}" after it.
C14_LocatesObjectInBraceFreeCommentary ==
    HandlerReturned("run_sqlite_query") =>
        \A i, j \in 1..Len(harness.sql_json) :
            (ObjectAt(harness.sql_json, i, j) /\ BraceFreeAround(harness.sql_json, i, j))
                => LocatedAndActedOn(harness.sql_json, i, j)

C14_Witness ==
    /\ HandlerReturned("run_sqlite_query")
    /\ \E i, j \in 1..Len(harness.sql_json) :
          /\ ObjectAt(harness.sql_json, i, j)
          /\ BraceFreeAround(harness.sql_json, i, j)
          /\ i > 1 \/ j < Len(harness.sql_json)
    /\ last.db.keys = {"data"}
    /\ Len(last.db.data) >= 1

\* C15: every call of run_sqlite_query that opens a store connection closes
\* it before the call returns, on every path, the failing ones included.
C15_ConnectionAlwaysClosed ==
    HandlerReturned("run_sqlite_query") => (last.opened => last.closed)

\* C16: ask() issues a tool invocation only on a session whose connect()
\* completed successfully and that has not been closed: after connect() has
\* failed, or after cleanup() has completed, no invocation is outstanding.
SessionOpen == session # None /\ "ClientSession" \in live /\ cleanups = 0

C16_InvokesOnlyOnOpenSession ==
    inflight.tool # "none" => (connectDone /\ SessionOpen)

\* C17: on a client whose session was never set (connect() never called),
\* ask() returns "Error: Not connected to the server." for every question,
\* issues no tool invocation, and leaves the session and the exit stack as
\* they were.
C17_Answer ==
    (mainpc = "ask" /\ session = None) =>
        /\ calls = <<>>
        /\ received = 0
        /\ inflight = NoRequest
        /\ askpc \in {"idle", "returned"}
        /\ askpc = "returned" => response = NotConnected

C17_NotConnected ==
    /\ []C17_Answer
    /\ [][(mainpc = "ask" /\ session = None) =>
             UNCHANGED <<session, exit_stack, live, cleanups, connectDone, channelVars,
                         store>>]_vars

C17_Witness ==
    /\ mainpc = "ask"
    /\ askpc = "returned"
    /\ runs = 1
    /\ session = None
    /\ exit_stack = <<>>
    /\ ~propagating
    /\ cleanups = 0
    /\ response = NotConnected
    /\ question # MainQuestion

\* C18: every run of ask() terminates. Provided each outstanding invocation
\* eventually returns or raises, the run goes through its steps in order,
\* each entered once and none revisited, and reaches its return (with the
\* fourth reply, or with the error string); after that it issues no further
\* invocation.
AskOver == askpc \in {"returned", "raised"}

C18_Advances ==
    /\ step' \in {step, step + 1}
    /\ (askpc # "invoke" /\ askpc' = "invoke") => step' = step + 1
    /\ askpc' = "await" => (askpc \in {"invoke", "await"} /\ step' = step)
    /\ AskOver => (askpc' = askpc /\ calls' = calls /\ inflight' = NoRequest
                   /\ step' = step /\ response' = response)

C18_AskTerminates ==
    /\ [][C18_Advances]_vars
    /\ (mainpc = "ask") ~> AskOver

C18_Witness ==
    /\ mainpc = "done"
    /\ askpc = "returned"
    /\ step = 4
    /\ received = 4
    /\ excStep = 0
    /\ inflight = NoRequest

\* The reasoning call of the handler under call failed: it raised, or its
\* text holds no JSON object that parses.
NerReasoningFails ==
    \/ harness.llm.raises
    \/ Loads(Locate(harness.llm.text)).raised

\* The reasoning text parses to an object that has an error member itself.
ReplyHasErrorMember ==
    /\ ~NerReasoningFails
    /\ Loads(Locate(harness.llm.text)).value["error"] # Absent

DictionaryNotices ==
    {"Data dictionary file not found. I will proceed without it.",
     "Error reading data dictionary: e"}

\* With the dictionary file missing or unreadable, the helper returns a
\* notice and the handler returns the outcome of the reasoning call.
DegradesToReasoningOutcome ==
    /\ ~get_data_dictionary_description(harness.file).raised
    /\ get_data_dictionary_description(harness.file).value \in DictionaryNotices
    /\ ~last.raised
    /\ last.dict = IF NerReasoningFails THEN NerError
                   ELSE Loads(Locate(harness.llm.text)).value

\* C19: when the dictionary file is missing or unreadable,
\* get_data_dictionary_description returns a notice without raising and
\* ner_generator_dynamic returns the outcome of the reasoning call; its result
\* carries an error marker only if the reasoning call or the parsing of its
\* output fails.
C19_MarkerOnlyOnFailure ==
    (HandlerReturned("ner_generator_dynamic") /\ DictionaryUnreadable) =>
        /\ DegradesToReasoningOutcome
        /\ last.dict["error"] # Absent => NerReasoningFails

\* C19, amended: the result carries an error marker only if the reasoning
\* call or the parsing fails, or the object the reasoning call produced has
\* an error member of its own.
C19_MarkerOnlyFromReasoning ==
    (HandlerReturned("ner_generator_dynamic") /\ DictionaryUnreadable) =>
        /\ DegradesToReasoningOutcome
        /\ last.dict["error"] # Absent => (NerReasoningFails \/ ReplyHasErrorMember)
        /\ last.dict = NerError => NerReasoningFails

C19_Witness ==
    /\ HandlerReturned("ner_generator_dynamic")
    /\ harness.file = "missing"
    /\ ~harness.llm.raises
    /\ last.dict["error"] = Absent
    /\ last.dict["sql_query"] = "SELECT"

====
